---- MODULE Spec2Model ----
(***************************************************************************)
(* The transaction filtering pipeline of src/app.py: one run of the        *)
(* script from the upload of the CSV files to the two result tables and    *)
(* their summaries.  A DataFrame is a sequence of rows; a row is a record  *)
(* with its pandas index label and the three columns the pipeline reads    *)
(* (Sendername, Amount, Transday).  The columns the script only carries    *)
(* along (Accday, Valueday, Message) are not modelled.                     *)
(***************************************************************************)
EXTENDS Integers, Sequences, FiniteSets, TLC

VARIABLES
    pc,                 \* position of the run in the script
    uploaded_files,     \* TRUE once st.file_uploader holds at least one file
    df_total,           \* the working table (lines 30, 42, 45, 61, 78)
    amounts_to_filter,  \* the st.multiselect selection (line 88)
    unique_names_only,  \* the st.checkbox value (line 103)
    df_filtered,        \* line 97 / 100
    df_result,          \* lines 105-113
    df_other_amounts,   \* lines 118-127
    summary_filtered,   \* what lines 135-143 write
    summary_other       \* what lines 146-161 write

vars == <<pc, uploaded_files, df_total, amounts_to_filter, unique_names_only,
          df_filtered, df_result, df_other_amounts, summary_filtered,
          summary_other>>

----------------------------------------------------------------------------
(* Bounds and value domains *)

\* the uploaded files together hold at most MaxRows data rows
MaxRows == 3

\* a missing amount (what pd.to_numeric(errors='coerce') gives for a cell that
\* is empty or not a number)
NaN == -1
\* a missing timestamp (an empty Transday cell parsed by parse_dates)
NaT == -1
\* timestamps count hours; pd.to_datetime(date) is midnight of the date
HoursPerDay == 24

\* strings are sequences of one-character strings
Ann == <<"A", "n", "n">>
bob == <<"b", "o", "b">>
\* a missing Sendername (read_csv reads an empty cell as NaN, never as "")
NaNName == <<>>

Timestamp(day, hour) == day * HoursPerDay + hour

----------------------------------------------------------------------------
(* DataFrame helpers *)

\* the rows of s at the positions in I, in s's order (boolean-mask selection)
SelectIdx(s, I) ==
    LET F[i \in 0..Len(s)] ==
            IF i = 0 THEN <<>>
            ELSE IF i \in I THEN Append(F[i - 1], s[i]) ELSE F[i - 1]
    IN  F[Len(s)]

\* reset_index(drop=True): the labels become 0..n-1
ResetIndex(s) == [i \in 1..Len(s) |-> [s[i] EXCEPT !.index = i - 1]]

\* pd.concat([df_total, df], ignore_index=True)
Concat(a, b) == ResetIndex(a \o b)

\* the data of a table without its index labels
Columns(s) ==
    [i \in 1..Len(s) |->
        [Sendername |-> s[i].Sendername, Amount |-> s[i].Amount,
         Transday |-> s[i].Transday]]

\* Series.unique() of a column, as a set
Sendernames(s) == {s[i].Sendername : i \in 1..Len(s)}

----------------------------------------------------------------------------
(* Ingestion: lines 29-45 *)

\* pd.to_numeric(cell, errors='coerce') on the text of an Amount cell
ToNumeric(cell) ==
    CASE cell = "5" -> 5
      [] cell = "10" -> 10
      [] OTHER -> NaN

ToNumericColumn(s) == [i \in 1..Len(s) |-> [s[i] EXCEPT !.Amount = ToNumeric(@)]]

\* the tables pd.read_csv can return for one file whose data rows are in Rows
\* (a file holds no data row or one; longer files are built by concatenation)
FilesOf(Rows) == {<<>>} \cup {<<r>> : r \in Rows}

ReadCsv(df) ==
    /\ pc = "upload"
    /\ Len(df_total) + Len(df) <= MaxRows
    /\ df_total' = Concat(df_total, df)
    /\ uploaded_files' = TRUE
    /\ UNCHANGED <<pc, amounts_to_filter, unique_names_only, df_filtered,
                   df_result, df_other_amounts, summary_filtered, summary_other>>

\* line 19 / 187-188: nothing uploaded
NoUpload ==
    /\ pc = "upload"
    /\ ~uploaded_files
    /\ pc' = "please_upload"
    /\ UNCHANGED <<uploaded_files, df_total, amounts_to_filter, unique_names_only,
                   df_filtered, df_result, df_other_amounts, summary_filtered,
                   summary_other>>

----------------------------------------------------------------------------
(* Date range: lines 47-64 *)

\* Timestamp.date()
Date(ts) == ts \div HoursPerDay
\* pd.to_datetime(date)
ToDatetime(d) == d * HoursPerDay

ValidDays(s) == {Date(s[i].Transday) : i \in {j \in 1..Len(s) : s[j].Transday # NaT}}
SetMin(S) == CHOOSE x \in S : \A y \in S : x <= y
SetMax(S) == CHOOSE x \in S : \A y \in S : x >= y
\* Series.min() / Series.max() skip NaT; NaT when nothing is left
MinDate(s) == IF ValidDays(s) = {} THEN NaT ELSE SetMin(ValidDays(s))
MaxDate(s) == IF ValidDays(s) = {} THEN NaT ELSE SetMax(ValidDays(s))

\* lines 61-64: a comparison with NaT is False
InDateRange(ts, start_date, end_date) ==
    /\ ts # NaT
    /\ ts >= ToDatetime(start_date)
    /\ ts <= ToDatetime(end_date)

FilterByDate(s, start_date, end_date) ==
    SelectIdx(s, {i \in 1..Len(s) : InDateRange(s[i].Transday, start_date, end_date)})

\* lines 45-50 with a minimum and a maximum to take
MinMaxDate ==
    /\ pc = "upload"
    /\ uploaded_files
    /\ MinDate(ToNumericColumn(df_total)) # NaT
    /\ df_total' = ToNumericColumn(df_total)
    /\ pc' = "date_input"
    /\ UNCHANGED <<uploaded_files, amounts_to_filter, unique_names_only, df_filtered,
                   df_result, df_other_amounts, summary_filtered, summary_other>>

\* lines 45-50 when no row has a transaction date (no data rows at all, or
\* only missing dates): min() is not a timestamp and the run stops there
MinMaxDateFails ==
    /\ pc = "upload"
    /\ uploaded_files
    /\ MinDate(ToNumericColumn(df_total)) = NaT
    /\ df_total' = ToNumericColumn(df_total)
    /\ pc' = "crash_min_date"
    /\ UNCHANGED <<uploaded_files, amounts_to_filter, unique_names_only, df_filtered,
                   df_result, df_other_amounts, summary_filtered, summary_other>>

\* lines 51-64: the widget returns two dates within [min_date, max_date];
\* both are dates, so the test of line 59 passes and the filter runs
DateRange(start_date, end_date) ==
    /\ pc = "date_input"
    /\ start_date \in MinDate(df_total)..MaxDate(df_total)
    /\ end_date \in start_date..MaxDate(df_total)
    /\ df_total' = FilterByDate(df_total, start_date, end_date)
    /\ pc' = "name_input"
    /\ UNCHANGED <<uploaded_files, amounts_to_filter, unique_names_only, df_filtered,
                   df_result, df_other_amounts, summary_filtered, summary_other>>

\* line 51 when the user has picked one date only: st.date_input returns a
\* 1-tuple and the unpacking into start_date, end_date raises ValueError
DateRangeIncomplete ==
    /\ pc = "date_input"
    /\ pc' = "crash_date_input"
    /\ UNCHANGED <<uploaded_files, df_total, amounts_to_filter, unique_names_only,
                   df_filtered, df_result, df_other_amounts, summary_filtered,
                   summary_other>>

----------------------------------------------------------------------------
(* Name search: lines 66-82 *)

\* str.split(',')
Split(s) ==
    LET F[i \in 0..Len(s)] ==
            IF i = 0 THEN <<<<>>>>
            ELSE IF s[i] = "," THEN Append(F[i - 1], <<>>)
            ELSE [F[i - 1] EXCEPT ![Len(F[i - 1])] = Append(@, s[i])]
    IN  F[Len(s)]

\* str.strip()
Strip(s) ==
    LET ink == {i \in 1..Len(s) : s[i] # " "}
    IN  IF ink = {} THEN <<>> ELSE SubSeq(s, SetMin(ink), SetMax(ink))

\* the characters re.escape puts a backslash before, among those of the model
Special == {".", "|", "\\", " "}

\* re.escape(name)
Escape(s) ==
    LET F[i \in 0..Len(s)] ==
            IF i = 0 THEN <<>>
            ELSE IF s[i] \in Special THEN F[i - 1] \o <<"\\", s[i]>>
            ELSE Append(F[i - 1], s[i])
    IN  F[Len(s)]

\* '|'.join(names)
Join(names) ==
    LET F[i \in 0..Len(names)] ==
            IF i = 0 THEN <<>>
            ELSE IF i = 1 THEN names[1]
            ELSE F[i - 1] \o <<"|">> \o names[i]
    IN  F[Len(names)]

\* lines 72-76: the regular expression built from the text input
Pattern(name_input) ==
    LET parts == Split(name_input)
        name_list == [i \in 1..Len(parts) |-> Strip(parts[i])]
        kept == SelectIdx(name_list, {i \in 1..Len(name_list) : name_list[i] # <<>>})
    IN  Join([i \in 1..Len(kept) |-> Escape(kept[i])])

\* re.compile(pattern): the alternatives of the pattern, each a sequence of
\* tokens; an escaped character is a literal, '.' matches any character and
\* '|' separates alternatives.  The empty pattern has one empty alternative.
Compile(pattern) ==
    LET lit(c) == [any |-> FALSE, ch |-> c]
        dot == [any |-> TRUE, ch |-> "."]
        F[i \in 0..Len(pattern)] ==
            IF i = 0 THEN [alts |-> <<<<>>>>, esc |-> FALSE]
            ELSE LET p == F[i - 1]
                     c == pattern[i]
                     add(t) == [p.alts EXCEPT ![Len(p.alts)] = Append(@, t)]
                 IN  IF p.esc THEN [alts |-> add(lit(c)), esc |-> FALSE]
                     ELSE IF c = "\\" THEN [alts |-> p.alts, esc |-> TRUE]
                     ELSE IF c = "|" THEN [alts |-> Append(p.alts, <<>>), esc |-> FALSE]
                     ELSE IF c = "." THEN [alts |-> add(dot), esc |-> FALSE]
                     ELSE [alts |-> add(lit(c)), esc |-> FALSE]
    IN  F[Len(pattern)].alts

\* the case folding of re.IGNORECASE (case=False) on the model's letters
Lower(c) ==
    CASE c = "A" -> "a"
      [] c = "B" -> "b"
      [] c = "N" -> "n"
      [] c = "O" -> "o"
      [] OTHER -> c

\* re.search(regex, text, re.IGNORECASE)
Search(alts, text) ==
    \E a \in 1..Len(alts) :
        \E start \in 0..(Len(text) - Len(alts[a])) :
            \A k \in 1..Len(alts[a]) :
                \/ alts[a][k].any
                \/ Lower(alts[a][k].ch) = Lower(text[start + k])

\* Series.str.contains(pattern, case=False, na=False) on one cell (the
\* accessor's refusal of a column that holds no string at all is not modelled)
StrContains(cell, pattern) ==
    IF cell = NaNName THEN FALSE ELSE Search(Compile(pattern), cell)

FilterByName(s, name_input) ==
    IF name_input # <<>>
    THEN SelectIdx(s, {i \in 1..Len(s) : StrContains(s[i].Sendername, Pattern(name_input))})
    ELSE s

\* lines 68-85 and 184-185
NameSearch(name_input) ==
    /\ pc = "name_input"
    /\ df_total' = FilterByName(df_total, name_input)
    /\ pc' = IF df_total' = <<>> THEN "no_transactions" ELSE "amounts"
    /\ UNCHANGED <<uploaded_files, amounts_to_filter, unique_names_only, df_filtered,
                   df_result, df_other_amounts, summary_filtered, summary_other>>

----------------------------------------------------------------------------
(* Amount selection and the two tables: lines 86-127 *)

\* line 87: df_total['Amount'].dropna().unique()
AmountsAvailable(s) == {s[i].Amount : i \in 1..Len(s)} \ {NaN}

\* FilterByAmount with the unrestricted branch keeping only the rows that
\* have one of the offered amounts
FilterByAmountOffered(s, amounts) ==
    IF amounts # {}
    THEN SelectIdx(s, {i \in 1..Len(s) : s[i].Amount \in amounts})
    ELSE SelectIdx(s, {i \in 1..Len(s) : s[i].Amount \in AmountsAvailable(s)})

\* lines 95-100
FilterByAmount(s, amounts) ==
    IF amounts # {}
    THEN SelectIdx(s, {i \in 1..Len(s) : s[i].Amount \in amounts})
    ELSE s

SelectAmounts(amounts) ==
    /\ pc = "amounts"
    /\ amounts \subseteq AmountsAvailable(df_total)
    /\ amounts_to_filter' = amounts
    /\ df_filtered' = FilterByAmount(df_total, amounts)
    /\ pc' = "unique"
    /\ UNCHANGED <<uploaded_files, df_total, unique_names_only, df_result,
                   df_other_amounts, summary_filtered, summary_other>>

\* SortValuesDescending with ascending=True
SortValuesAscending(s) ==
    LET before(x, y) == x.Transday # NaT /\ (y.Transday = NaT \/ x.Transday < y.Transday)
    IN  {[i \in 1..Len(s) |-> s[p[i]]] : p \in
            {q \in Permutations(1..Len(s)) :
                \A i, j \in 1..Len(s) : i < j => ~before(s[q[j]], s[q[i]])}}

\* line 110: sort_values(by='Transday', ascending=False).  The default
\* quicksort is not stable, so rows of equal Transday come in any order;
\* NaT sorts last.
SortValuesDescending(s) ==
    LET before(x, y) == x.Transday # NaT /\ (y.Transday = NaT \/ x.Transday > y.Transday)
    IN  {[i \in 1..Len(s) |-> s[p[i]]] : p \in
            {q \in Permutations(1..Len(s)) :
                \A i, j \in 1..Len(s) : i < j => ~before(s[q[j]], s[q[i]])}}

\* line 111: drop_duplicates(subset='Sendername', keep='first')
DropDuplicates(s) ==
    SelectIdx(s, {i \in 1..Len(s) :
                    \A j \in 1..(i - 1) : s[j].Sendername # s[i].Sendername})

\* lines 105-113: the tables df_result can be
Results(s, unique) ==
    IF unique
    THEN {ResetIndex(DropDuplicates(t)) : t \in SortValuesDescending(s)}
    ELSE {ResetIndex(s)}

UniqueNames(unique) ==
    /\ pc = "unique"
    /\ unique_names_only' = unique
    /\ df_result' \in Results(df_filtered, unique)
    /\ pc' = "other"
    /\ UNCHANGED <<uploaded_files, df_total, amounts_to_filter, df_filtered,
                   df_other_amounts, summary_filtered, summary_other>>

\* OtherRows without the test of the sender
OtherRowsOfAnySender(s, sendernames, amounts) ==
    IF amounts # {}
    THEN ResetIndex(SelectIdx(s, {i \in 1..Len(s) : s[i].Amount \notin amounts}))
    ELSE <<>>

\* OtherRows without the negated test of the amount
OtherRowsOfAnyAmount(s, sendernames, amounts) ==
    IF amounts # {}
    THEN ResetIndex(SelectIdx(s, {i \in 1..Len(s) : s[i].Sendername \in sendernames}))
    ELSE <<>>

\* lines 116-127
OtherRows(s, sendernames, amounts) ==
    IF amounts # {}
    THEN ResetIndex(SelectIdx(s, {i \in 1..Len(s) :
                                    /\ s[i].Sendername \in sendernames
                                    /\ s[i].Amount \notin amounts}))
    ELSE <<>>

OtherAmounts ==
    /\ pc = "other"
    /\ df_other_amounts' = OtherRows(df_total, Sendernames(df_result), amounts_to_filter)
    /\ pc' = "summary"
    /\ UNCHANGED <<uploaded_files, df_total, amounts_to_filter, unique_names_only,
                   df_filtered, df_result, summary_filtered, summary_other>>

----------------------------------------------------------------------------
(* Summaries: lines 133-161 *)

\* a written value: a number num/den, nan, the text N/A, or nothing written
Number(n, d) == [kind |-> "number", num |-> n, den |-> d]
NotANumber == [kind |-> "nan", num |-> 0, den |-> 0]
NA == [kind |-> "N/A", num |-> 0, den |-> 0]
Nothing == [kind |-> "nothing", num |-> 0, den |-> 0]

Present(s) == {i \in 1..Len(s) : s[i].Amount # NaN}

\* Series.sum(): missing values are skipped
AmountSum(s) ==
    LET F[i \in 0..Len(s)] ==
            IF i = 0 THEN 0
            ELSE IF s[i].Amount # NaN THEN F[i - 1] + s[i].Amount ELSE F[i - 1]
    IN  F[Len(s)]

\* AmountMean dividing by the number of rows, missing amounts included
AmountMeanOverRows(s) ==
    IF Present(s) = {} THEN NotANumber ELSE Number(AmountSum(s), Len(s))

\* Series.mean(): the sum over the number of values that are not missing
AmountMean(s) ==
    IF Present(s) = {} THEN NotANumber ELSE Number(AmountSum(s), Cardinality(Present(s)))

\* lines 135-143 (and 151-159): the count, then the total and the average,
\* or N/A for both when the Amount column is empty
SummaryOf(s) ==
    [written |-> TRUE,
     count   |-> Len(s),
     total   |-> IF Len(s) # 0 THEN Number(AmountSum(s), 1) ELSE NA,
     average |-> IF Len(s) # 0 THEN AmountMean(s) ELSE NA]

NoSummary == [written |-> FALSE, count |-> 0, total |-> Nothing, average |-> Nothing]

\* lines 146-161: the summary of the other table is written only when the
\* table has rows; otherwise the "No other transactions found" line is
OtherSummaryOf(s) == IF Len(s) # 0 THEN SummaryOf(s) ELSE NoSummary

Summaries ==
    /\ pc = "summary"
    /\ summary_filtered' = SummaryOf(df_result)
    /\ summary_other' = OtherSummaryOf(df_other_amounts)
    /\ pc' = "done"
    /\ UNCHANGED <<uploaded_files, df_total, amounts_to_filter, unique_names_only,
                   df_filtered, df_result, df_other_amounts>>

----------------------------------------------------------------------------
(* The run *)

Init ==
    /\ pc = "upload"
    /\ uploaded_files = FALSE
    /\ df_total = <<>>
    /\ amounts_to_filter = {}
    /\ unique_names_only = FALSE
    /\ df_filtered = <<>>
    /\ df_result = <<>>
    /\ df_other_amounts = <<>>
    /\ summary_filtered = NoSummary
    /\ summary_other = NoSummary

\* the texts typed into the name search box
NameInputs ==
    { <<>>,
      <<"a", "n", "n">>,
      <<"N", ",", "B">>,
      <<" ", "b", "o", " ">>,
      <<"a", ".", "n">>,
      <<"x", ",", " ">>,
      <<",">>,
      <<" ">> }

\* everything after the files are read
Pipeline ==
    \/ NoUpload
    \/ MinMaxDate
    \/ MinMaxDateFails
    \/ \E start_date, end_date \in MinDate(df_total)..MaxDate(df_total) :
           DateRange(start_date, end_date)
    \/ DateRangeIncomplete
    \/ \E name_input \in NameInputs : NameSearch(name_input)
    \/ \E amounts \in SUBSET {5, 10} : SelectAmounts(amounts)
    \/ \E unique \in BOOLEAN : UniqueNames(unique)
    \/ OtherAmounts
    \/ Summaries

\* the data rows of the uploaded files: every sender with every Amount cell,
\* all on one day
AmountRows ==
    [index : {0}, Sendername : {Ann, bob, NaNName}, Amount : {"5", "10", "", "abc"},
     Transday : {Timestamp(1, 0)}]

Next ==
    \/ \E df \in FilesOf(AmountRows) : ReadCsv(df)
    \/ Pipeline

Spec == Init /\ [][Next]_vars

\* the data rows of the uploaded files: two senders, two amounts, and
\* transaction timestamps at midnight and at noon of two days, or missing
DateRows ==
    [index : {0}, Sendername : {Ann, bob}, Amount : {"5", "10"},
     Transday : {Timestamp(1, 0), Timestamp(1, 12), Timestamp(2, 0),
                 Timestamp(2, 12), NaT}]

NextDates ==
    \/ \E df \in FilesOf(DateRows) : ReadCsv(df)
    \/ Pipeline

SpecDates == Init /\ [][NextDates]_vars

----------------------------------------------------------------------------
(* Properties *)

Partitioned == pc \in {"summary", "done"}

\* the positions of s whose row has the sender of some row of t
WithSenderIn(s, t) ==
    {i \in 1..Len(s) : \E j \in 1..Len(t) : t[j].Sendername = s[i].Sendername}

\* C1: with a non-empty selection, `other` holds exactly the rows of the
\* name/date-filtered dataset whose sender has a row in `filtered` and whose
\* amount is not selected, in the dataset's order.
C1_OtherIsSameSenderOtherAmount ==
    (Partitioned /\ amounts_to_filter # {}) =>
        /\ Columns(df_other_amounts) =
               Columns(SelectIdx(df_total,
                   {i \in WithSenderIn(df_total, df_filtered) :
                        df_total[i].Amount \notin amounts_to_filter}))
        /\ WithSenderIn(df_total, df_filtered) = WithSenderIn(df_total, df_result)

\* a sender of `filtered` has a row in `other`, while another row with an
\* unselected amount stays out because its sender is not in `filtered`
C1_Witness ==
    /\ pc = "done"
    /\ amounts_to_filter # {}
    /\ Len(df_other_amounts) > 0
    /\ \E i \in 1..Len(df_total) :
           /\ df_total[i].Amount \notin amounts_to_filter
           /\ i \notin WithSenderIn(df_total, df_filtered)

\* C2: with a non-empty selection, no (sender, amount) pair is in a row of
\* `filtered` and in a row of `other`, collapsed or not.
C2_NoSharedSenderAmountPair ==
    (Partitioned /\ amounts_to_filter # {}) =>
        \A i \in 1..Len(df_result), j \in 1..Len(df_other_amounts) :
            ~(/\ df_result[i].Sendername = df_other_amounts[j].Sendername
              /\ df_result[i].Amount = df_other_amounts[j].Amount)

\* a sender is in both tables, with the collapse switched on
C2_Witness ==
    /\ pc = "done"
    /\ amounts_to_filter # {}
    /\ unique_names_only
    /\ Len(df_filtered) > Len(df_result)
    /\ \E i \in 1..Len(df_result), j \in 1..Len(df_other_amounts) :
           df_result[i].Sendername = df_other_amounts[j].Sendername

\* C3: with an empty selection, `filtered` before the collapse is the whole
\* name/date-filtered dataset, rows and order, and `other` is empty.
C3_EmptySelectionKeepsAll ==
    (amounts_to_filter = {}) =>
        /\ pc \in {"unique", "other", "summary", "done"} => df_filtered = df_total
        /\ (pc \in {"other", "summary", "done"} /\ ~unique_names_only) =>
               Columns(df_result) = Columns(df_total)
        /\ Partitioned => df_other_amounts = <<>>

\* nothing is selected, a row has a missing amount, and a sender has rows of
\* two different amounts
C3_Witness ==
    /\ pc = "done"
    /\ amounts_to_filter = {}
    /\ \E i \in 1..Len(df_total) : df_total[i].Amount = NaN
    /\ \E i, j \in 1..Len(df_total) :
           /\ df_total[i].Sendername = df_total[j].Sendername
           /\ df_total[i].Amount # df_total[j].Amount
           /\ df_total[j].Amount # NaN

\* the rows of s at the positions of sender n
RowsOf(s, n) == {i \in 1..Len(s) : s[i].Sendername = n}

\* C7: with the collapse switched on, `filtered` has exactly one row for each
\* sender of the amount-selected rows, and that row carries the latest
\* transaction date among the sender's amount-selected rows.
C7_CollapseKeepsLatestPerSender ==
    (pc \in {"other", "summary", "done"} /\ unique_names_only) =>
        /\ Sendernames(df_result) = Sendernames(df_filtered)
        /\ \A n \in Sendernames(df_filtered) :
               /\ Cardinality(RowsOf(df_result, n)) = 1
               /\ \A i \in RowsOf(df_result, n), j \in RowsOf(df_filtered, n) :
                      df_result[i].Transday >= df_filtered[j].Transday

\* two senders are left after the collapse, and one of them had an earlier
\* row listed before a later one
C7_Witness ==
    /\ pc = "done"
    /\ unique_names_only
    /\ Len(df_result) = 2
    /\ \E i, j \in 1..Len(df_filtered) :
           /\ i < j
           /\ df_filtered[i].Sendername = df_filtered[j].Sendername
           /\ df_filtered[i].Transday < df_filtered[j].Transday

\* the sum of the amounts of s at the positions in I
RECURSIVE SumAt(_, _)
SumAt(s, I) ==
    IF I = {} THEN 0
    ELSE LET i == CHOOSE x \in I : TRUE IN s[i].Amount + SumAt(s, I \ {i})

\* count, total and average of table s as C8 states them for a table with rows
StatsOfRows(summary, s) ==
    /\ summary.written
    /\ summary.count = Len(s)
    /\ summary.total = Number(SumAt(s, Present(s)), 1)
    /\ \/ Present(s) # {} /\ summary.average.kind = "number"
                          /\ summary.average.num = SumAt(s, Present(s))
                          /\ summary.average.den = Cardinality(Present(s))
       \/ Present(s) = {} /\ summary.average = NotANumber

\* C8 as stated: each table's summary is count, total and average of its rows,
\* and count 0, total N/A, average N/A when the table has no rows.
C8_StatsOrNAForEachTable ==
    pc = "done" =>
        /\ IF Len(df_result) > 0 THEN StatsOfRows(summary_filtered, df_result)
           ELSE summary_filtered = [written |-> TRUE, count |-> 0, total |-> NA, average |-> NA]
        /\ IF Len(df_other_amounts) > 0 THEN StatsOfRows(summary_other, df_other_amounts)
           ELSE summary_other = [written |-> TRUE, count |-> 0, total |-> NA, average |-> NA]

\* C8 amended: `filtered` always has rows when the summaries are written and
\* its summary is the count of its rows, the sum and the mean of its amounts
\* that are not missing (nan as the mean when all are missing); so is the
\* summary of `other` when `other` has rows; when `other` has no rows no
\* summary of it is written, and N/A is never written.
C8_StatsOfTablesWithRows ==
    pc = "done" =>
        /\ Len(df_result) > 0
        /\ StatsOfRows(summary_filtered, df_result)
        /\ IF Len(df_other_amounts) > 0 THEN StatsOfRows(summary_other, df_other_amounts)
           ELSE summary_other = NoSummary

\* both tables have rows, two of them in `filtered`, and one of the tables has
\* a missing amount beside one that is not missing
C8_Witness ==
    /\ pc = "done"
    /\ Len(df_result) + Len(df_other_amounts) = 3
    /\ Len(df_other_amounts) > 0
    /\ Present(df_other_amounts) # {}
    /\ \E i \in 1..Len(df_other_amounts) : df_other_amounts[i].Amount = NaN

\* the calendar days a date range can be chosen from
DaysOf(s) == MinDate(s)..MaxDate(s)

\* C4: the date stage keeps a row if and only if start_date <= the calendar
\* day of its transaction date <= end_date, whatever the time of day.
C4_DateRangeInclusiveByDay ==
    [][\A start_date, end_date \in DaysOf(df_total) :
          DateRange(start_date, end_date) =>
              df_total' = SelectIdx(df_total,
                  {i \in 1..Len(df_total) :
                      /\ df_total[i].Transday # NaT
                      /\ start_date <= Date(df_total[i].Transday)
                      /\ Date(df_total[i].Transday) <= end_date})]_vars

\* C5: the date stage with the default range [min_date, max_date] returns
\* the dataset unchanged.
C5_DefaultRangeIsIdentity ==
    [][DateRange(MinDate(df_total), MaxDate(df_total)) => df_total' = df_total]_vars

\* the fragments of the name input: split on commas, trimmed, empty ones dropped
Fragments(name_input) ==
    {Strip(Split(name_input)[i]) : i \in 1..Len(Split(name_input))} \ {<<>>}

\* text contains fragment as a literal substring, letter case aside
ContainsLiteral(text, fragment) ==
    \E start \in 0..(Len(text) - Len(fragment)) :
        \A k \in 1..Len(fragment) : Lower(text[start + k]) = Lower(fragment[k])

\* C6: with a non-empty name input, the name stage keeps a row if and only if
\* its sender name is not missing and contains one of the fragments; an
\* input without any fragment keeps no row.
C6_NameStageKeepsMatchingRows ==
    [][\A name_input \in NameInputs \ {<<>>} :
          NameSearch(name_input) =>
              df_total' = SelectIdx(df_total,
                  {i \in 1..Len(df_total) :
                      /\ df_total[i].Sendername # NaNName
                      /\ \E f \in Fragments(name_input) :
                             ContainsLiteral(df_total[i].Sendername, f)})]_vars

\* C9: an incomplete date selection filters nothing and the run goes on to
\* the name stage with the dataset unchanged.
C9_IncompleteRangePassesThrough ==
    [][DateRangeIncomplete => (pc' = "name_input" /\ df_total' = df_total)]_vars

\* C10: with files that hold no data row, the run does not stop in an error
\* at the minimum and maximum date; it ends in the 'no transactions' state.
C10_EmptyDatasetEndsInInfo ==
    (uploaded_files /\ df_total = <<>>) =>
        pc \in {"upload", "date_input", "name_input", "no_transactions"}

====
